---- MODULE Spec2Model ----
(***************************************************************************)
(* State machine of the App component of src/src/App.js: the recording ->  *)
(* transcription -> history pipeline, the model loader with its retry      *)
(* effect, and the language selector.                                      *)
(*                                                                         *)
(* One action is one browser task: an event handler or the settlement of   *)
(* an external promise, together with every continuation that runs in the  *)
(* microtasks it triggers (an await on an already settled promise, a catch *)
(* block, a finally block) and with the re-render and the effect run that  *)
(* its state updates cause.  User input is only accepted through controls  *)
(* that the last render left enabled.                                      *)
(***************************************************************************)
EXTENDS Integers, Sequences, FiniteSets, TLC

VARIABLES
    isRecording,          \* useState, App.js:129
    transcription,        \* useState, App.js:130
    editedTranscription,  \* useState, App.js:131
    isProcessing,         \* useState, App.js:132
    error,                \* useState, App.js:133: <<>> is null, else <<prefix, message>>
    audioHistory,         \* useState, App.js:134
    objectUrls,           \* object URLs created (App.js:272) and not revoked
    isModelLoading,       \* useState, App.js:135
    retryCount,           \* useState, App.js:139
    selectedLanguage,     \* useState, App.js:141
    mediaRecorderRef,     \* useRef, App.js:147: 0 is null, else an index of recorders
    transcriberRef,       \* useRef, App.js:149
    recorders,            \* the MediaRecorder objects created so far, by state;
                          \* "failed" where the constructor threw
    streams,              \* the MediaStreams acquired so far: recorders[k] was
                          \* made for streams[k]; "live" until its tracks are stopped
    gumPending,           \* getUserMedia calls not settled yet (App.js:207)
    tasks,                \* the transcribeAudio calls in flight, in start order;
                          \* loadTries counts the pipeline() calls made for the call
    openContexts,         \* AudioContexts created (App.js:256) and not closed
    loads,                \* pipeline() calls in flight made for the effect or the selector
    effectGen,            \* which run of the load effect is the mounted one (isMounted)
    retryTimeout,         \* App.js:295: <<>> when no timer is pending, else <<delay>>
    langEpoch,            \* number of language changes so far
    now,                  \* last value returned by Date.now()
    delays,               \* delays given to setTimeout since the last successful effect load
    budget,               \* what the environment may still do
    last                  \* what the last step did

vars == <<isRecording, transcription, editedTranscription, isProcessing, error,
          audioHistory, objectUrls, isModelLoading, retryCount, selectedLanguage,
          mediaRecorderRef, transcriberRef, recorders, streams, gumPending, tasks,
          openContexts,
          loads,
          effectGen, retryTimeout, langEpoch, now, delays, budget, last>>

----------------------------------------------------------------------------
(* Bounds of the model *)

MaxUploads == 2
MaxRecordings == 1
MaxLangChanges == 1
MaxSameMs == 1
MaxHistorySubmits == 11
MaxExplicitRetries == 1
MaxCaptureStarts == 2

(* Program constants *)

HistoryCap == 10
MaxRetries == 3
BaseDelay == 1000
MaxDelay == 10000

SUPPORTED_LANGUAGES == {"ml", "en", "hi"}

\* The fixed Malayalam placeholder of App.js:194, written in ASCII.
Sentinel == "vakku thiricharinjilla"

----------------------------------------------------------------------------
(* Sample arithmetic.  A sample is a rational <<n, d>> with d > 0; the      *)
(* quotients that IEEE division adds are NaN == <<0, 0>> and the two        *)
(* infinities <<1, 0>> and <<-1, 0>>.                                       *)

RECURSIVE GCD(_, _)
GCD(a, b) == IF b = 0 THEN a ELSE GCD(b, a % b)

AbsInt(n) == IF n < 0 THEN -n ELSE n

Frac(n, d) ==
    LET g == GCD(AbsInt(n), AbsInt(d))
        s == IF d < 0 THEN -1 ELSE 1
    IN  <<(s * n) \div g, (s * d) \div g>>

NaN == <<0, 0>>

MathAbs(x) == <<AbsInt(x[1]), x[2]>>

Less(x, y) == x[1] * y[2] < y[1] * x[2]

\* Math.max(...xs) of a non-empty list
MathMax(xs) ==
    CHOOSE m \in {xs[i] : i \in DOMAIN xs} :
        \A i \in DOMAIN xs : ~Less(m, xs[i])

\* x / y of two finite numbers
Div(x, y) ==
    IF y[1] = 0
    THEN IF x[1] = 0 THEN NaN ELSE <<IF x[1] < 0 THEN -1 ELSE 1, 0>>
    ELSE Frac(x[1] * y[2], x[2] * y[1])


----------------------------------------------------------------------------
(* Inputs of the environment *)

\* Decoded channel data (getChannelData(0), App.js:262).  An AudioBuffer has
\* at least one frame.  The first buffer is silence.
Buffers ==
    { << <<0, 1>>, <<0, 1>> >>,
      << <<1, 2>>, <<-1, 4>> >> }

\* What the model call resolves to: <<>> is undefined, else <<text>>.
Results == { <<>>, <<"">>, <<"hello">> }

NoError == <<>>

NullHandle == [loaded |-> FALSE, epoch |-> 0]

NoCall ==
    [audio |-> <<>>, language |-> "", handleLoaded |-> FALSE, handleEpoch |-> 0,
     atEpoch |-> 0]

EmptyTranscript == [malayalam |-> "", sourceLanguage |-> ""]

----------------------------------------------------------------------------
(* Pure parts of the handlers *)

Min(a, b) == IF a < b THEN a ELSE b

RECURSIVE Pow2(_)
Pow2(n) == IF n = 0 THEN 1 ELSE 2 * Pow2(n - 1)

\* App.js:181
MaxValue(audioData) ==
    MathMax([i \in DOMAIN audioData |-> MathAbs(audioData[i])])

\* App.js:182
NormalizedAudio(audioData) ==
    [i \in DOMAIN audioData |-> Div(audioData[i], MaxValue(audioData))]

\* App.js:187: the language option of the model call
CallLanguage(lang) == "ml"

\* App.js:195: the language tag of the transcript
ResultLanguage(lang) == "ml"

\* App.js:185-189: the arguments of transcriberRef.current(...)
ModelCall(audioData, lang, handle) ==
    [audio |-> NormalizedAudio(audioData),
     language |-> CallLanguage(lang),
     handleLoaded |-> handle.loaded,
     handleEpoch |-> handle.epoch,
     atEpoch |-> langEpoch]

\* App.js:194: result?.text, "" where there is no result or no text
ResultText(result) == IF result = <<>> THEN "" ELSE result[1]

\* The same without the placeholder: the text of the model as it came.
TranscriptOfRaw(result, lang) ==
    [malayalam |-> ResultText(result), sourceLanguage |-> ResultLanguage(lang)]

\* App.js:193-196: the value that processAudio returns
TranscriptOf(result, lang) ==
    [malayalam |-> IF ResultText(result) = "" THEN Sentinel ELSE ResultText(result),
     sourceLanguage |-> ResultLanguage(lang)]

\* App.js:269-276.  The blob is the one the object URL points to; the
\* timestamp is a second reading of the clock that nothing reads back.
NewAudioEntry(id, url, result) ==
    [id |-> id, audioUrl |-> url, transcription |-> result,
     editedTranscription |-> result]

\* App.js:272: URL.createObjectURL returns a URL never given out before.  The
\* source revokes none, so the URLs given out are the live ones.
CreateObjectURL == Cardinality(objectUrls) + 1

\* App.js:409
FilterOut(id, prevHistory) == SelectSeq(prevHistory, LAMBDA item : item.id # id)

\* App.js:377-381
MapEdited(id, newText, prevHistory) ==
    [k \in DOMAIN prevHistory |->
        IF prevHistory[k].id = id
        THEN [prevHistory[k] EXCEPT !.editedTranscription = newText]
        ELSE prevHistory[k]]

\* AppendHistory without the slice(0, 10)
AppendHistoryUncapped(entry, prevHistory) == <<entry>> \o prevHistory

\* App.js:278-281
AppendHistory(entry, prevHistory) ==
    LET newHistory == <<entry>> \o prevHistory
    IN  SubSeq(newHistory, 1, Min(Len(newHistory), HistoryCap))

\* RetryDelay growing linearly instead of doubling
RetryDelayLinear(rc) == Min(BaseDelay * (rc + 1), MaxDelay)

\* App.js:330
RetryDelay(rc) == Min(BaseDelay * Pow2(rc), MaxDelay)

\* App.js:325
MayRetry(rc) == rc < MaxRetries

\* transcribeAudio without its finally block
ProcessingLeftAsIs == isProcessing

\* App.js:287-289: the finally block of transcribeAudio
ProcessingAfterSettle == FALSE

\* A test of the ref that always finds a handle
NeedsLoadNever(ref) == FALSE

\* App.js:153: initializeTranscriber starts pipeline() iff the ref is empty
NeedsLoad(ref) == ~ref.loaded

\* App.js:612, 640: the record button and the upload input are enabled
UiEnabled == ~isProcessing /\ ~isModelLoading

\* The component is mounted: effectGen is 0 once the cleanup of its last
\* effect run has run for the unmount (App.js:339-345).
Mounted == effectGen # 0

RemoveAt(s, i) == SubSeq(s, 1, i - 1) \o SubSeq(s, i + 1, Len(s))

Note(op, cause, lang) ==
    [op |-> op, cause |-> cause, lang |-> lang, id |-> 0, text |-> ""]

\* The last step was none of the steps the properties below speak about.
Quiet == Note("", "", "")

\* pipeline() calls in flight, whoever made them
LoadsInFlight ==
    Cardinality(loads) + Cardinality({i \in DOMAIN tasks : tasks[i].pc = "load"})

InferencesInFlight ==
    Cardinality({i \in DOMAIN tasks : tasks[i].pc = "infer"})

----------------------------------------------------------------------------
(* Initial state: the component is mounted and the load effect has run     *)
(* once (App.js:293-336), so the first pipeline() call is in flight.       *)

InitApp ==
    /\ isRecording = FALSE
    /\ transcription = EmptyTranscript
    /\ editedTranscription = EmptyTranscript
    /\ isProcessing = FALSE
    /\ error = NoError
    /\ audioHistory = <<>>
    /\ objectUrls = {}
    /\ isModelLoading = TRUE
    /\ retryCount = 0
    /\ selectedLanguage = "ml"
    /\ mediaRecorderRef = 0
    /\ transcriberRef = NullHandle
    /\ recorders = <<>>
    /\ streams = <<>>
    /\ gumPending = 0
    /\ tasks = <<>>
    /\ openContexts = 0
    /\ loads = {[caller |-> "effect", gen |-> 1, rc |-> 0, epoch |-> 0]}
    /\ effectGen = 1
    /\ retryTimeout = <<>>
    /\ langEpoch = 0
    /\ now = 0
    /\ delays = <<>>
    /\ last = Quiet

Init ==
    /\ InitApp
    /\ budget = [uploads |-> MaxUploads, recordings |-> MaxRecordings,
                 langs |-> MaxLangChanges, sameMs |-> MaxSameMs, retries |-> 0]


----------------------------------------------------------------------------
(* Groups of variables, for the frame conditions *)

recVars  == <<isRecording, mediaRecorderRef, recorders, streams, gumPending>>
histVars == <<transcription, editedTranscription, audioHistory, objectUrls, now>>
loadVars == <<isModelLoading, retryCount, loads, effectGen, retryTimeout, delays>>
langVars == <<selectedLanguage, langEpoch>>
taskVars == <<tasks, openContexts>>

----------------------------------------------------------------------------
(* Recording: startRecording (App.js:205-248), stopRecording (386-392)     *)

\* Click on the record button while it shows "Start Recording".
StartRecording ==
    /\ Mounted
    /\ UiEnabled
    /\ ~isRecording
    /\ budget.recordings > 0
    /\ gumPending' = gumPending + 1
    /\ budget' = [budget EXCEPT !.recordings = @ - 1]
    /\ last' = Quiet
    /\ UNCHANGED <<isRecording, mediaRecorderRef, recorders, streams, histVars,
                   loadVars, langVars, isProcessing, error, transcriberRef,
                   taskVars>>

\* getUserMedia resolves: the rest of startRecording runs.
GetUserMediaResolves ==
    /\ gumPending > 0
    /\ gumPending' = gumPending - 1
    /\ streams' = Append(streams, "live")
    /\ recorders' = Append(recorders, "recording")
    /\ mediaRecorderRef' = Len(recorders) + 1
    /\ isRecording' = TRUE
    /\ last' = Quiet
    /\ UNCHANGED <<histVars, loadVars, langVars, isProcessing, error,
                   transcriberRef, taskVars, budget>>

\* getUserMedia resolves and the MediaRecorder constructor (App.js:218) or
\* start() (App.js:242) throws, as where the mimeType is not supported: the
\* catch block of startRecording (App.js:244-247).
MediaRecorderThrows ==
    /\ gumPending > 0
    /\ gumPending' = gumPending - 1
    /\ streams' = Append(streams, "live")
    /\ recorders' = Append(recorders, "failed")
    /\ error' = <<"Failed to start recording: ", "MediaRecorder">>
    /\ last' = Quiet
    /\ UNCHANGED <<isRecording, mediaRecorderRef, histVars, loadVars, langVars,
                   isProcessing, transcriberRef, taskVars, budget>>

\* getUserMedia rejects: the catch block of startRecording.
GetUserMediaRejects ==
    /\ gumPending > 0
    /\ gumPending' = gumPending - 1
    /\ error' = <<"Failed to start recording: ", "getUserMedia">>
    /\ last' = Quiet
    /\ UNCHANGED <<isRecording, mediaRecorderRef, recorders, streams, histVars,
                   loadVars, langVars, isProcessing, transcriberRef, tasks,
                   openContexts, budget>>

\* Click on the record button while it shows "Stop Recording".
StopRecording ==
    /\ Mounted
    /\ UiEnabled
    /\ isRecording
    /\ mediaRecorderRef # 0
    /\ recorders' = [recorders EXCEPT ![mediaRecorderRef] = "stopping"]
    /\ streams' = [streams EXCEPT ![mediaRecorderRef] = "ended"]
    /\ isRecording' = FALSE
    /\ last' = Quiet
    /\ UNCHANGED <<mediaRecorderRef, gumPending, histVars, loadVars, langVars,
                   isProcessing, error, transcriberRef, taskVars, budget>>

----------------------------------------------------------------------------
(* transcribeAudio (App.js:251-290) and processAudio (App.js:170-202)      *)

\* App.js:252-260: up to the first await
TranscribeAudioStart(op) ==
    /\ isProcessing' = TRUE
    /\ error' = NoError
    /\ tasks' = Append(tasks, [pc |-> "read", lang |-> selectedLanguage,
                               samples |-> <<>>, loadEpoch |-> 0, loadTries |-> 0,
                               call |-> NoCall])
    /\ openContexts' = openContexts + 1
    /\ last' = Note(op, "", "")

\* App.js:286
TranscribeAudioError(cause) == <<"Failed to process audio: ", cause>>

\* App.js:284-289 (and 197-201 when processAudio threw): catch and finally
TranscribeAudioCatch(i, cause) ==
    /\ error' = TranscribeAudioError(cause)
    /\ isProcessing' = ProcessingAfterSettle
    /\ tasks' = RemoveAt(tasks, i)
    /\ last' = Note("SubmissionFailed", cause, tasks[i].lang)
    /\ UNCHANGED <<recVars, histVars, loadVars, langVars, transcriberRef,
                   openContexts, budget>>

\* The stop event of a stopped recorder is dispatched (App.js:232-240).
OnStop(r) ==
    /\ recorders[r] = "stopping"
    /\ recorders' = [recorders EXCEPT ![r] = "inactive"]
    /\ TranscribeAudioStart("OnStop")
    /\ UNCHANGED <<isRecording, mediaRecorderRef, streams, gumPending, histVars,
                   loadVars, langVars, transcriberRef, budget>>

\* A file is chosen in the upload input (App.js:395-405).
HandleFileUpload ==
    /\ Mounted
    /\ UiEnabled
    /\ budget.uploads > 0
    /\ budget' = [budget EXCEPT !.uploads = @ - 1]
    /\ TranscribeAudioStart("HandleFileUpload")
    /\ UNCHANGED <<recVars, histVars, loadVars, langVars, transcriberRef>>

\* audioBlob.arrayBuffer() resolves (App.js:260).
ReadResolves(i) ==
    /\ tasks[i].pc = "read"
    /\ tasks' = [tasks EXCEPT ![i].pc = "decode"]
    /\ last' = Quiet
    /\ UNCHANGED <<openContexts, recVars, histVars, loadVars, langVars,
                   isProcessing, error, transcriberRef, budget>>

ReadRejects(i) ==
    /\ tasks[i].pc = "read"
    /\ TranscribeAudioCatch(i, "read")

\* decodeAudioData resolves (App.js:261); processAudio runs up to its first
\* await: the pipeline() call of initializeTranscriber or the model call.
DecodeResolves(i, audioData) ==
    /\ tasks[i].pc = "decode"
    /\ error' = NoError
    /\ tasks' =
         IF NeedsLoad(transcriberRef)
         THEN [tasks EXCEPT ![i].pc = "load", ![i].samples = audioData,
                            ![i].loadEpoch = langEpoch, ![i].loadTries = 1]
         ELSE [tasks EXCEPT ![i].pc = "infer", ![i].samples = audioData,
                            ![i].call = ModelCall(audioData, tasks[i].lang,
                                                  transcriberRef)]
    /\ last' = Quiet
    /\ UNCHANGED <<openContexts, recVars, histVars, loadVars, langVars, isProcessing,
                   transcriberRef, budget>>

DecodeRejects(i) ==
    /\ tasks[i].pc = "decode"
    /\ TranscribeAudioCatch(i, "decode")

\* The pipeline() call made for a submission resolves (App.js:156, 177-189).
SubmitLoadResolves(i) ==
    /\ tasks[i].pc = "load"
    /\ transcriberRef' = [loaded |-> TRUE, epoch |-> tasks[i].loadEpoch]
    /\ tasks' = [tasks EXCEPT ![i].pc = "infer",
                              ![i].call = ModelCall(tasks[i].samples, tasks[i].lang,
                                                    transcriberRef')]
    /\ last' = Quiet
    /\ UNCHANGED <<openContexts, recVars, histVars, loadVars, langVars,
                   isProcessing, error, budget>>

\* ... or rejects (App.js:161-165, 197-201, 284-289).
SubmitLoadRejects(i) ==
    /\ tasks[i].pc = "load"
    /\ TranscribeAudioCatch(i, "load")

\* Date.now() (App.js:270): the clock has moved on, or it has not.
ClockReadings == {now + 1} \cup (IF now > 0 /\ budget.sameMs > 0 THEN {now} ELSE {})

\* The model call resolves (App.js:185-196, 264-283, 287-289).
InferResolves(i, result, t) ==
    /\ tasks[i].pc = "infer"
    /\ LET r == TranscriptOf(result, tasks[i].lang)
       IN  /\ transcription' = r
           /\ editedTranscription' = r
           /\ audioHistory' = AppendHistory(NewAudioEntry(t, CreateObjectURL, r),
                                             audioHistory)
    /\ objectUrls' = objectUrls \cup {CreateObjectURL}
    /\ now' = t
    /\ budget' = [budget EXCEPT !.sameMs = IF t = now THEN @ - 1 ELSE @]
    /\ isProcessing' = ProcessingAfterSettle
    /\ tasks' = RemoveAt(tasks, i)
    /\ openContexts' = openContexts - 1
    /\ last' = [Note("SubmissionSucceeded", "", tasks[i].lang)
                   EXCEPT !.text = ResultText(result)]
    /\ UNCHANGED <<recVars, loadVars, langVars, error, transcriberRef>>

InferRejects(i) ==
    /\ tasks[i].pc = "infer"
    /\ TranscribeAudioCatch(i, "infer")


----------------------------------------------------------------------------
(* The model loader: initializeTranscriber (App.js:152-167), the load      *)
(* effect (293-346), handleRetry (349-353), handleLanguageChange (447-458) *)

\* handleRetry counting in twos
NextRetryCountByTwo(prev) == prev + 2

\* App.js:350
NextRetryCount(prev) == prev + 1

\* isMounted of the closure that made the load l
IsMounted(l) == l.gen = effectGen

\* The effect runs for a new value rc of retryCount: cleanup of the previous
\* run (App.js:339-345), then loadModel (297-317).  When the ref holds a
\* handle, initializeTranscriber returns at once and loadModel finishes in
\* the same task, setting retryCount to 0.
EffectRun(rc) ==
    /\ effectGen' = effectGen + 1
    /\ retryTimeout' = <<>>
    /\ error' = NoError
    /\ IF NeedsLoad(transcriberRef)
       THEN /\ isModelLoading' = TRUE
            /\ retryCount' = rc
            /\ loads' = loads \cup {[caller |-> "effect", gen |-> effectGen + 1,
                                     rc |-> rc, epoch |-> langEpoch]}
            /\ delays' = delays
       ELSE /\ isModelLoading' = FALSE
            /\ retryCount' = 0
            /\ loads' = loads
            /\ delays' = <<>>

\* The pipeline() call of the load effect resolves (App.js:156, 313-317).
EffectLoadResolves(l) ==
    /\ l \in loads
    /\ l.caller = "effect"
    /\ loads' = loads \ {l}
    /\ transcriberRef' = [loaded |-> TRUE, epoch |-> l.epoch]
    /\ IF IsMounted(l)
       THEN /\ isModelLoading' = FALSE
            /\ retryCount' = 0
            /\ error' = NoError
            /\ delays' = <<>>
            /\ effectGen' = IF retryCount # 0 THEN effectGen + 1 ELSE effectGen
       ELSE UNCHANGED <<isModelLoading, retryCount, error, delays, effectGen>>
    /\ last' = Note("EffectLoadResolves", "", "")
    /\ UNCHANGED <<recVars, histVars, langVars, isProcessing, taskVars, retryTimeout,
                   budget>>

\* ... or rejects (App.js:161-165, 318-333).
EffectLoadRejects(l) ==
    /\ l \in loads
    /\ l.caller = "effect"
    /\ loads' = loads \ {l}
    /\ IF IsMounted(l)
       THEN /\ error' = <<"", "load">>
            /\ isModelLoading' = FALSE
            /\ IF MayRetry(l.rc)
               THEN /\ retryTimeout' = <<RetryDelay(l.rc)>>
                    /\ delays' = Append(delays, RetryDelay(l.rc))
               ELSE UNCHANGED <<retryTimeout, delays>>
       ELSE /\ error' = IF Mounted THEN <<"Failed to load model: ", "load">>
                                  ELSE error
            /\ UNCHANGED <<isModelLoading, retryTimeout, delays>>
    /\ last' = Quiet
    /\ UNCHANGED <<recVars, histVars, langVars, isProcessing, taskVars, transcriberRef,
                   retryCount, effectGen, budget>>

\* The retry timer fires (App.js:326-330): handleRetry, then the effect runs.
RetryTimerFires ==
    /\ retryTimeout # <<>>
    /\ EffectRun(NextRetryCount(retryCount))
    /\ last' = Note("RetryTimerFires", "", "")
    /\ UNCHANGED <<recVars, histVars, langVars, isProcessing, taskVars, transcriberRef,
                   budget>>

\* handleRetry called as the explicit retry (App.js:349-353).
HandleRetry ==
    /\ Mounted
    /\ budget.retries > 0
    /\ budget' = [budget EXCEPT !.retries = @ - 1]
    /\ EffectRun(NextRetryCount(retryCount))
    /\ last' = Note("HandleRetry", "", "")
    /\ UNCHANGED <<recVars, histVars, langVars, isProcessing, taskVars, transcriberRef>>

\* The component is unmounted: the cleanup of the current effect run
\* (App.js:339-345) sets its isMounted to false and clears its timer.  State
\* updates of an unmounted component are dropped.
Unmount ==
    /\ Mounted
    /\ effectGen' = 0
    /\ retryTimeout' = <<>>
    /\ last' = Note("Unmount", "", "")
    /\ UNCHANGED <<recVars, histVars, langVars, isProcessing, error, taskVars,
                   transcriberRef, isModelLoading, retryCount, loads, delays,
                   budget>>

\* Another language is chosen in the selector (App.js:447-453, 508-518).
HandleLanguageChange(newLang) ==
    /\ Mounted
    /\ newLang \in SUPPORTED_LANGUAGES \ {selectedLanguage}
    /\ budget.langs > 0
    /\ budget' = [budget EXCEPT !.langs = @ - 1]
    /\ selectedLanguage' = newLang
    /\ langEpoch' = langEpoch + 1
    /\ transcriberRef' = NullHandle
    /\ loads' = loads \cup {[caller |-> "lang", gen |-> 0, rc |-> 0,
                             epoch |-> langEpoch + 1]}
    /\ last' = Quiet
    /\ UNCHANGED <<recVars, histVars, isProcessing, error, taskVars, isModelLoading,
                   retryCount, effectGen, retryTimeout, delays>>

\* The pipeline() call of handleLanguageChange resolves (App.js:156, 453).
LangLoadResolves(l) ==
    /\ l \in loads
    /\ l.caller = "lang"
    /\ loads' = loads \ {l}
    /\ transcriberRef' = [loaded |-> TRUE, epoch |-> l.epoch]
    /\ last' = Quiet
    /\ UNCHANGED <<recVars, histVars, langVars, isProcessing, error, taskVars,
                   isModelLoading, retryCount, effectGen, retryTimeout, delays,
                   budget>>

\* ... or rejects (App.js:161-165, 454-457).
LangLoadRejects(l) ==
    /\ l \in loads
    /\ l.caller = "lang"
    /\ loads' = loads \ {l}
    /\ error' = IF Mounted THEN <<"Failed to change language: ", "load">>
                          ELSE error
    /\ last' = Quiet
    /\ UNCHANGED <<recVars, histVars, langVars, isProcessing, taskVars, transcriberRef,
                   isModelLoading, retryCount, effectGen, retryTimeout, delays,
                   budget>>

----------------------------------------------------------------------------
(* The history store: deleteAudio (App.js:408-410) and                     *)
(* saveEditedTranscription (App.js:375-383)                                *)

\* Texts that an edit may put in place of a transcript.
EditTexts == {[malayalam |-> "edited", sourceLanguage |-> "ml"]}

\* The ids that the clock has given out so far, and the next one.
KnownIds == 1..(now + 1)

\* deleteAudio(id): the delete button of an entry, or a call with another id.
DeleteAudio(id) ==
    /\ Mounted
    /\ audioHistory' = FilterOut(id, audioHistory)
    /\ last' = [Note("DeleteAudio", "", "") EXCEPT !.id = id]
    /\ UNCHANGED <<recVars, loadVars, langVars, transcription, editedTranscription,
                   objectUrls, now, isProcessing, error, transcriberRef, taskVars,
                   budget>>

\* saveEditedTranscription(id, newText)
SaveEditedTranscription(id, newText) ==
    /\ Mounted
    /\ audioHistory' = MapEdited(id, newText, audioHistory)
    /\ last' = [Note("SaveEditedTranscription", "", "")
                   EXCEPT !.id = id, !.text = newText.malayalam]
    /\ UNCHANGED <<recVars, loadVars, langVars, transcription, editedTranscription,
                   objectUrls, now, isProcessing, error, transcriberRef, taskVars,
                   budget>>

----------------------------------------------------------------------------
(* The YouTube stub: handleYoutubeInput (App.js:413-425)                   *)

\* Click on the YouTube button, which is enabled while isProcessing is false
\* and a URL is typed in (App.js:555-556).  The function has no await: it
\* sets the flag, sets the message and clears the flag in one task.
HandleYoutubeInput ==
    /\ Mounted
    /\ ~isProcessing
    /\ error' = <<"", "YouTube integration coming soon!">>
    /\ isProcessing' = FALSE
    /\ last' = Note("HandleYoutubeInput", "", "")
    /\ UNCHANGED <<recVars, histVars, loadVars, langVars, transcriberRef, taskVars,
                   budget>>

----------------------------------------------------------------------------
(* Specifications *)

Next ==
    \/ StartRecording
    \/ GetUserMediaResolves
    \/ MediaRecorderThrows
    \/ GetUserMediaRejects
    \/ StopRecording
    \/ \E r \in DOMAIN recorders : OnStop(r)
    \/ HandleFileUpload
    \/ \E i \in DOMAIN tasks : ReadResolves(i)
    \/ \E i \in DOMAIN tasks : ReadRejects(i)
    \/ \E i \in DOMAIN tasks : \E b \in Buffers : DecodeResolves(i, b)
    \/ \E i \in DOMAIN tasks : DecodeRejects(i)
    \/ \E i \in DOMAIN tasks : SubmitLoadResolves(i)
    \/ \E i \in DOMAIN tasks : SubmitLoadRejects(i)
    \/ \E i \in DOMAIN tasks : \E r \in Results : \E t \in ClockReadings :
          InferResolves(i, r, t)
    \/ \E i \in DOMAIN tasks : InferRejects(i)
    \/ \E l \in loads : EffectLoadResolves(l)
    \/ \E l \in loads : EffectLoadRejects(l)
    \/ RetryTimerFires
    \/ \E g \in SUPPORTED_LANGUAGES : HandleLanguageChange(g)
    \/ \E l \in loads : LangLoadResolves(l)
    \/ \E l \in loads : LangLoadRejects(l)

\* The application under every interleaving of user input and callbacks.
Spec == Init /\ [][Next]_vars


\* Submissions (recordings and uploads) without language changes.
InitSubmit ==
    /\ InitApp
    /\ budget = [uploads |-> MaxUploads, recordings |-> MaxRecordings,
                 langs |-> 0, sameMs |-> MaxSameMs, retries |-> 0]

NextSubmit ==
    \/ StartRecording
    \/ GetUserMediaResolves
    \/ MediaRecorderThrows
    \/ GetUserMediaRejects
    \/ StopRecording
    \/ \E r \in DOMAIN recorders : OnStop(r)
    \/ HandleFileUpload
    \/ \E i \in DOMAIN tasks : ReadResolves(i)
    \/ \E i \in DOMAIN tasks : ReadRejects(i)
    \/ \E i \in DOMAIN tasks : \E b \in Buffers : DecodeResolves(i, b)
    \/ \E i \in DOMAIN tasks : DecodeRejects(i)
    \/ \E i \in DOMAIN tasks : SubmitLoadResolves(i)
    \/ \E i \in DOMAIN tasks : SubmitLoadRejects(i)
    \/ \E i \in DOMAIN tasks : \E r \in Results : \E t \in ClockReadings :
          InferResolves(i, r, t)
    \/ \E i \in DOMAIN tasks : InferRejects(i)
    \/ \E l \in loads : EffectLoadResolves(l)
    \/ \E l \in loads : EffectLoadRejects(l)
    \/ RetryTimerFires

SpecSubmit == InitSubmit /\ [][NextSubmit]_vars

\* A step in which an external call made for a submission returns or fails.
SettleSome ==
    \E i \in DOMAIN tasks :
        \/ ReadResolves(i)
        \/ ReadRejects(i)
        \/ \E b \in Buffers : DecodeResolves(i, b)
        \/ DecodeRejects(i)
        \/ SubmitLoadResolves(i)
        \/ SubmitLoadRejects(i)
        \/ \E r \in Results : \E t \in ClockReadings : InferResolves(i, r, t)
        \/ InferRejects(i)

\* A step in which the pipeline() call of the load effect returns or fails.
SettleEffectLoad ==
    \E l \in loads : EffectLoadResolves(l) \/ EffectLoadRejects(l)

\* Recordings and their submissions when every external call returns or
\* fails in the end and every timer that stays pending fires.
InitLive ==
    /\ InitApp
    /\ budget = [uploads |-> 0, recordings |-> MaxCaptureStarts, langs |-> 0,
                 sameMs |-> 0, retries |-> 0]

NextLive ==
    \/ StartRecording
    \/ GetUserMediaResolves
    \/ MediaRecorderThrows
    \/ GetUserMediaRejects
    \/ StopRecording
    \/ \E r \in DOMAIN recorders : OnStop(r)
    \/ SettleSome
    \/ SettleEffectLoad
    \/ RetryTimerFires

SpecLive ==
    /\ InitLive
    /\ [][NextLive]_vars
    /\ WF_vars(SettleSome)
    /\ WF_vars(SettleEffectLoad)
    /\ WF_vars(RetryTimerFires)

\* The model loader with uploads and language changes, without recordings.
InitLoader ==
    /\ InitApp
    /\ budget = [uploads |-> MaxUploads, recordings |-> 0,
                 langs |-> MaxLangChanges, sameMs |-> MaxSameMs, retries |-> 0]

NextLoader ==
    \/ HandleFileUpload
    \/ \E i \in DOMAIN tasks : ReadResolves(i)
    \/ \E i \in DOMAIN tasks : ReadRejects(i)
    \/ \E i \in DOMAIN tasks : \E b \in Buffers : DecodeResolves(i, b)
    \/ \E i \in DOMAIN tasks : DecodeRejects(i)
    \/ \E i \in DOMAIN tasks : SubmitLoadResolves(i)
    \/ \E i \in DOMAIN tasks : SubmitLoadRejects(i)
    \/ \E i \in DOMAIN tasks : \E r \in Results : \E t \in ClockReadings :
          InferResolves(i, r, t)
    \/ \E i \in DOMAIN tasks : InferRejects(i)
    \/ \E l \in loads : EffectLoadResolves(l)
    \/ \E l \in loads : EffectLoadRejects(l)
    \/ RetryTimerFires
    \/ \E g \in SUPPORTED_LANGUAGES : HandleLanguageChange(g)
    \/ \E l \in loads : LangLoadResolves(l)
    \/ \E l \in loads : LangLoadRejects(l)

SpecLoader == InitLoader /\ [][NextLoader]_vars

\* Uploads one after the other, enough of them to fill the history.
InitHistory ==
    /\ InitApp
    /\ budget = [uploads |-> MaxHistorySubmits, recordings |-> 0, langs |-> 0,
                 sameMs |-> 0, retries |-> 0]

NextHistory ==
    \/ HandleFileUpload
    \/ \E i \in DOMAIN tasks : ReadResolves(i)
    \/ \E i \in DOMAIN tasks : ReadRejects(i)
    \/ \E i \in DOMAIN tasks : \E b \in Buffers : DecodeResolves(i, b)
    \/ \E i \in DOMAIN tasks : DecodeRejects(i)
    \/ \E i \in DOMAIN tasks : \E r \in Results : \E t \in ClockReadings :
          InferResolves(i, r, t)
    \/ \E i \in DOMAIN tasks : InferRejects(i)
    \/ \E l \in loads : EffectLoadResolves(l)

SpecHistory == InitHistory /\ [][NextHistory]_vars

\* Capture: start requests, their outcomes, stops, and the submissions that
\* the stop events start.
InitCapture ==
    /\ InitApp
    /\ budget = [uploads |-> 0, recordings |-> MaxCaptureStarts, langs |-> 0,
                 sameMs |-> 0, retries |-> 0]

NextCapture ==
    \/ StartRecording
    \/ GetUserMediaResolves
    \/ MediaRecorderThrows
    \/ GetUserMediaRejects
    \/ StopRecording
    \/ \E r \in DOMAIN recorders : OnStop(r)
    \/ \E i \in DOMAIN tasks : ReadResolves(i)
    \/ \E i \in DOMAIN tasks : ReadRejects(i)
    \/ \E i \in DOMAIN tasks : \E b \in Buffers : DecodeResolves(i, b)
    \/ \E i \in DOMAIN tasks : DecodeRejects(i)
    \/ \E i \in DOMAIN tasks : \E r \in Results : \E t \in ClockReadings :
          InferResolves(i, r, t)
    \/ \E i \in DOMAIN tasks : InferRejects(i)
    \/ \E l \in loads : EffectLoadResolves(l)

SpecCapture == InitCapture /\ [][NextCapture]_vars

\* Capture as above, with the YouTube button.
NextFlag ==
    \/ NextCapture
    \/ HandleYoutubeInput

SpecFlag == InitCapture /\ [][NextFlag]_vars

\* The load effect with its timer, language changes and the unmount.
InitEffect ==
    /\ InitApp
    /\ budget = [uploads |-> 0, recordings |-> 0, langs |-> MaxLangChanges,
                 sameMs |-> 0, retries |-> 0]

NextEffect ==
    \/ \E l \in loads : EffectLoadResolves(l)
    \/ \E l \in loads : EffectLoadRejects(l)
    \/ RetryTimerFires
    \/ \E g \in SUPPORTED_LANGUAGES : HandleLanguageChange(g)
    \/ \E l \in loads : LangLoadResolves(l)
    \/ \E l \in loads : LangLoadRejects(l)
    \/ Unmount

SpecEffect == InitEffect /\ [][NextEffect]_vars

\* The history store: uploads one after the other, deletions and edits.
InitStore ==
    /\ InitApp
    /\ budget = [uploads |-> MaxUploads, recordings |-> 0, langs |-> 0,
                 sameMs |-> MaxSameMs, retries |-> 0]

NextStore ==
    \/ HandleFileUpload
    \/ \E i \in DOMAIN tasks : ReadResolves(i)
    \/ \E i \in DOMAIN tasks : ReadRejects(i)
    \/ \E i \in DOMAIN tasks : \E b \in Buffers : DecodeResolves(i, b)
    \/ \E i \in DOMAIN tasks : DecodeRejects(i)
    \/ \E i \in DOMAIN tasks : \E r \in Results : \E t \in ClockReadings :
          InferResolves(i, r, t)
    \/ \E i \in DOMAIN tasks : InferRejects(i)
    \/ \E l \in loads : EffectLoadResolves(l)
    \/ \E id \in KnownIds : DeleteAudio(id)
    \/ \E id \in KnownIds : \E x \in EditTexts : SaveEditedTranscription(id, x)

SpecStore == InitStore /\ [][NextStore]_vars

\* The load effect with handleRetry also called as the explicit retry.
InitRetry ==
    /\ InitApp
    /\ budget = [uploads |-> 0, recordings |-> 0, langs |-> MaxLangChanges,
                 sameMs |-> 0, retries |-> MaxExplicitRetries]

NextRetry ==
    \/ \E l \in loads : EffectLoadResolves(l)
    \/ \E l \in loads : EffectLoadRejects(l)
    \/ RetryTimerFires
    \/ HandleRetry
    \/ \E g \in SUPPORTED_LANGUAGES : HandleLanguageChange(g)
    \/ \E l \in loads : LangLoadResolves(l)
    \/ \E l \in loads : LangLoadRejects(l)

SpecRetry == InitRetry /\ [][NextRetry]_vars


----------------------------------------------------------------------------
(* Properties *)

ExpectedDelays == <<1000, 2000, 4000>>

TimerPending == IF retryTimeout # <<>> THEN 1 ELSE 0

\* The automatic retries are used up and the last attempt has failed.
RetriesExhausted ==
    /\ retryCount = 3
    /\ retryTimeout = <<>>
    /\ ~isModelLoading
    /\ ~transcriberRef.loaded
    /\ ~\E l \in loads : l.caller = "effect"

\* C1: the history never holds more than 10 entries; every submission that
\* completes successfully puts exactly one new entry at the front, the
\* entries behind it are the previous ones in their order, and when that
\* would make 11 entries exactly the last one is dropped.
C1_HistoryCapped ==
    /\ [](Len(audioHistory) <= 10)
    /\ [][last'.op = "SubmissionSucceeded" =>
            /\ Len(audioHistory') = Min(Len(audioHistory) + 1, 10)
            /\ audioHistory'[1].id = now'
            /\ audioHistory'[1].transcription = transcription'
            /\ audioHistory'[1].editedTranscription = transcription'
            /\ \A k \in 2..Len(audioHistory') : audioHistory'[k] = audioHistory[k - 1]
       ]_vars

\* An eleventh submission has succeeded and evicted the oldest entry.
C1_Witness ==
    /\ last.op = "SubmissionSucceeded"
    /\ Len(audioHistory) = 10
    /\ audioHistory[1].id = 11
    /\ audioHistory[10].id = 2

\* C2: there is never more than one submission in flight, and never more
\* than one outstanding model call.
C2_OneSubmissionInFlight ==
    /\ Len(tasks) <= 1
    /\ InferencesInFlight <= 1

\* C3: a submission that arrives while processing is true starts nothing and
\* changes neither the history nor the current transcript.
C3_BusyRejected ==
    [][(last'.op \in {"OnStop", "HandleFileUpload"} /\ isProcessing) =>
            /\ tasks' = tasks
            /\ audioHistory' = audioHistory
            /\ transcription' = transcription
      ]_vars

\* C4: at most one model load is in flight at any time.
C4_OneLoadInFlight == LoadsInFlight <= 1

\* C5: the retries of a run of failed loads are scheduled after 1000, 2000
\* and 4000 ms, in this order, one per failed attempt, and there is no
\* fourth one.
C5_BackoffSequence ==
    /\ Len(delays) <= 3
    /\ delays = SubSeq(ExpectedDelays, 1, Len(delays))
    /\ Len(delays) = retryCount + TimerPending
    /\ retryTimeout # <<>> => retryTimeout = <<delays[Len(delays)]>>

\* The third automatic retry has failed as well and nothing is scheduled.
C5_Witness ==
    /\ RetriesExhausted
    /\ delays = ExpectedDelays

\* C6: an explicit retry after the automatic retries are exhausted sets the
\* retry counter to 0 and re-enters loading.
C6_ExplicitRetryResets ==
    [][(last'.op = "HandleRetry" /\ RetriesExhausted) =>
            /\ retryCount' = 0
            /\ isModelLoading'
      ]_vars

\* C7: the step in which a submission fails, at whatever stage, leaves the
\* processing flag false, puts the error of that failure in the error slot
\* and does not change the history.
C7_FailureClearsAndReports ==
    [][last'.op = "SubmissionFailed" =>
            /\ ~isProcessing'
            /\ error' = <<"Failed to process audio: ", last'.cause>>
            /\ last'.cause \in {"read", "decode", "load", "infer"}
            /\ audioHistory' = audioHistory
      ]_vars

\* A submission has failed in the model call while the history holds an
\* entry of an earlier submission.
C7_Witness ==
    /\ last.op = "SubmissionFailed"
    /\ last.cause = "infer"
    /\ audioHistory # <<>>
    /\ ~isProcessing

\* C8: the samples handed to the model are the decoded buffer unchanged when
\* its peak is 0, and the decoded samples divided by the peak otherwise; no
\* sample is the result of a division by zero.
C8_NoDivisionByZero ==
    \A i \in DOMAIN tasks :
        tasks[i].pc = "infer" =>
            LET buf == tasks[i].samples
                silent == \A k \in DOMAIN buf : buf[k][1] = 0
            IN  /\ silent => tasks[i].call.audio = buf
                /\ ~silent => tasks[i].call.audio =
                                 [k \in DOMAIN buf |-> Div(buf[k], MaxValue(buf))]
                /\ \A k \in DOMAIN buf : tasks[i].call.audio[k][2] # 0

\* C9: no model call uses a handle whose load began before the latest
\* language change that precedes the call.
C9_NoStaleHandle ==
    \A i \in DOMAIN tasks :
        tasks[i].pc = "infer" => tasks[i].call.handleEpoch = tasks[i].call.atEpoch

\* C10: the language passed to the model call and the language tag of the
\* resulting transcript are the language selected when the submission started.
C10_LanguagePassedThrough ==
    /\ \A i \in DOMAIN tasks :
          tasks[i].pc = "infer" => tasks[i].call.language = tasks[i].lang
    /\ last.op = "SubmissionSucceeded" => transcription.sourceLanguage = last.lang


\* C11: the implicit model load of a submission is retried with the backoff
\* policy: a submission fails in its load stage only after the load has been
\* attempted four times for it (the first attempt and three retries).
C11_ImplicitLoadRetried ==
    [][(last'.op = "SubmissionFailed" /\ last'.cause = "load") =>
            \E i \in DOMAIN tasks :
                /\ tasks' = RemoveAt(tasks, i)
                /\ tasks[i].pc = "load"
                /\ tasks[i].loadTries = 1 + 3
      ]_vars


\* C12: deleteAudio(id) removes exactly one entry, one with that id, and
\* leaves the others as they are and in their order; when no entry has the
\* id the history does not change.
C12_DeleteRemovesOne ==
    [][last'.op = "DeleteAudio" =>
            IF \E k \in DOMAIN audioHistory : audioHistory[k].id = last'.id
            THEN \E k \in DOMAIN audioHistory :
                    /\ audioHistory[k].id = last'.id
                    /\ audioHistory' = RemoveAt(audioHistory, k)
            ELSE audioHistory' = audioHistory
      ]_vars

\* C13: the entries that are in the history together have pairwise distinct
\* ids.
C13_DistinctIds ==
    \A j, k \in DOMAIN audioHistory :
        j # k => audioHistory[j].id # audioHistory[k].id

\* C14: saveEditedTranscription(id, newText) changes the edited text of one
\* entry with that id and nothing else: not its id, its audio or its original
\* transcript, no other entry, not the length or the order; when no entry
\* has the id the history does not change.
C14_EditChangesOneField ==
    [][last'.op = "SaveEditedTranscription" =>
            IF \E k \in DOMAIN audioHistory : audioHistory[k].id = last'.id
            THEN \E k \in DOMAIN audioHistory :
                    /\ audioHistory[k].id = last'.id
                    /\ Len(audioHistory') = Len(audioHistory)
                    /\ audioHistory'[k].editedTranscription.malayalam = last'.text
                    /\ audioHistory'[k] =
                         [audioHistory[k] EXCEPT !.editedTranscription =
                                                    audioHistory'[k].editedTranscription]
                    /\ \A j \in DOMAIN audioHistory :
                          j # k => audioHistory'[j] = audioHistory[j]
            ELSE audioHistory' = audioHistory
      ]_vars

\* C15: every object URL that is still live is the playback URL of an entry
\* of the history: the URL of an entry that was deleted or evicted has been
\* released.
C15_UrlsReleased ==
    \A u \in objectUrls :
        \E k \in DOMAIN audioHistory : audioHistory[k].audioUrl = u


\* C16: the audio context of a submission is closed on every path: the
\* contexts that are open are those of the submissions still in flight.
C16_ContextsReleased == openContexts = Len(tasks)


\* The application is idle: it shows no recording and waits for no microphone.
Idle == ~isRecording /\ gumPending = 0

\* C17: once the application is idle again, the tracks of every stream that
\* was acquired have been stopped.
C17_StreamsReleased ==
    Idle => \A k \in DOMAIN streams : streams[k] = "ended"

\* Recorders that are recording.
Recording == {k \in DOMAIN recorders : recorders[k] = "recording"}

\* C18: at most one recording session at a time: a start request made while
\* a recording is active or while an earlier request still waits for the
\* microphone creates no second recorder with a second stream.
C18_OneSession == Cardinality(Recording) <= 1

\* C19: every session ends with the stop that hands its buffer over: when
\* the application shows no recording, no recorder is left recording.
C19_SessionsEnd ==
    ~isRecording => Recording = {}


\* C20: the step in which a submission succeeds with empty text from the
\* model is a success like any other: it sets no error, the current
\* transcript and the transcript of the one new history entry are the
\* non-empty placeholder, and the entry's edited text starts as the same value.
C20_EmptyTextIsSentinel ==
    [][(last'.op = "SubmissionSucceeded" /\ last'.text = "") =>
            /\ Sentinel # ""
            /\ error' = error
            /\ ~isProcessing'
            /\ transcription'.malayalam = Sentinel
            /\ editedTranscription' = transcription'
            /\ Len(audioHistory') = Min(Len(audioHistory) + 1, HistoryCap)
            /\ audioHistory'[1].transcription = transcription'
            /\ audioHistory'[1].editedTranscription = transcription'
            /\ \A k \in 2..Len(audioHistory') : audioHistory'[k] = audioHistory[k - 1]
      ]_vars

\* A submission has succeeded with empty text from the model and its entry is
\* at the front of the history.
C20_Witness ==
    /\ last.op = "SubmissionSucceeded"
    /\ last.text = ""
    /\ audioHistory # <<>>
    /\ audioHistory[1].transcription.malayalam = Sentinel
    /\ transcription.malayalam = Sentinel

\* C21: when every external call returns or fails in the end, a submission
\* in flight leads to a state with no submission in flight, the processing
\* flag false and the controls enabled for the next submission.
C21_SubmissionsEnd ==
    (tasks # <<>>) ~> (tasks = <<>> /\ ~isProcessing /\ UiEnabled)

\* A submission has failed in its model load and the application is ready
\* for the next recording.
C21_Witness ==
    /\ last.op = "SubmissionFailed"
    /\ last.cause = "load"
    /\ tasks = <<>>
    /\ UiEnabled
    /\ budget.recordings > 0


\* C22: the processing flag is true exactly while a submission is in flight.
C22_FlagWhileInFlight == isProcessing <=> tasks # <<>>


\* C23: the model-loading flag is true whenever a pipeline() call is in
\* flight, whoever made it: the load effect, the language selector or a
\* submission.
C23_LoadingFlagCoversLoads == LoadsInFlight > 0 => isModelLoading


\* C24: every model call in flight was made on a handle that a load had put
\* in the ref, never on the empty ref.
C24_HandlePresentAtCall ==
    \A i \in DOMAIN tasks :
        tasks[i].pc = "infer" => tasks[i].call.handleLoaded

\* A submission waited for its own load, the language was changed in the
\* meantime, which emptied the ref, and the model call has been made.
C24_Witness ==
    \E i \in DOMAIN tasks :
        /\ tasks[i].pc = "infer"
        /\ tasks[i].loadTries = 1
        /\ tasks[i].call.atEpoch > tasks[i].loadEpoch
        /\ tasks[i].call.handleLoaded


\* C25: the retry counter stays between 0 and 3; it changes only by going
\* up by 1 when the retry timer fires or by going back to 0; it is 0 after a
\* load of the effect has succeeded; a timer is set only while none is
\* pending; once the component is unmounted no timer is pending, none is set
\* and the counter does not change.
C25_RetryCounter ==
    [][ /\ retryCount' \in 0..MaxRetries
        /\ retryCount' # retryCount =>
              \/ retryCount' = 0
              \/ last'.op = "RetryTimerFires" /\ retryCount' = retryCount + 1
        /\ last'.op = "RetryTimerFires" =>
              \/ retryCount' = retryCount + 1
              \/ ~NeedsLoad(transcriberRef) /\ retryCount' = 0
        /\ (last'.op = "EffectLoadResolves" /\ Mounted) => retryCount' = 0
        /\ Len(retryTimeout') <= 1
        /\ (retryTimeout' # <<>> /\ retryTimeout' # retryTimeout) =>
              retryTimeout = <<>>
        /\ ~Mounted' => retryTimeout' = <<>>
        /\ ~Mounted => retryCount' = retryCount /\ last'.op # "RetryTimerFires"
      ]_vars

\* The third automatic retry has been scheduled by a failed load, the
\* component was then unmounted, and the load that the language selector had
\* started has succeeded since.
C25_Witness ==
    /\ ~Mounted
    /\ retryCount = 2
    /\ delays = ExpectedDelays
    /\ retryTimeout = <<>>
    /\ transcriberRef.loaded

====
